---- MODULE Spec2Model ----
(***************************************************************************)
(* scripts/merge-coverage.py: parse LCOV files, merge them per source file *)
(* by taking the maximum count of every function, line and branch, and     *)
(* write the merged report.                                                *)
(*                                                                         *)
(* Text.  A line of an LCOV file is the sequence of its comma-separated    *)
(* fields, the tag in front: "DA:10,7" is <<"DA", "10", "7">>, "TN:" is    *)
(* <<"TN">>.  Every field is a string; int() and str() are the operators   *)
(* IntOf and StrOf below.  A Python dict is the sequence of its            *)
(* <<key, value>> items in insertion order.                                *)
(***************************************************************************)
EXTENDS Integers, Sequences, FiniteSets, TLC

VARIABLES
    alphabet,       \* the lines input files are made of in this run:
                    \* [head, body], a file's first line and its later ones
    limits,         \* [files, lines, reads] of this run: inputs, lines of one
                    \* input, and reads (an input looked up, a line read)
    inputs,         \* the input files consumed so far, in argv order
    nreads,         \* reads so far: inputs looked up and lines read
    pc,             \* "loop": top of merge_coverage_files' loop; "parse"; "done"
    lines_read,     \* parse_lcov_file: the lines of the open file read so far
    coverage_data,  \* parse_lcov_file: coverage_data
    current_file,   \* parse_lcov_file: current_file, <<>> for None, else <<path>>
    merged_data,    \* merge_coverage_files: merged_data
    write_called,   \* whether main reached write_merged_lcov
    output,         \* the file system at the -o path: [written, path, lines]
    exit_status     \* -1 while running, else the process's exit status

vars == <<alphabet, limits, inputs, nreads, pc, lines_read, coverage_data,
          current_file, merged_data, write_called, output, exit_status>>

----------------------------------------------------------------------------
(* Bounds of the model.                                                    *)

\* Runs that merge inputs and write the output: inputs, lines of one input,
\* reads in all.
MaxFiles == 2
MaxLines == 3
MaxReads == 8
\* Runs that examine the parse of one file.
ParseMaxFiles == 1
ParseMaxLines == 5
ParseMaxReads == 6

----------------------------------------------------------------------------
(* Python values.                                                          *)

None == <<>>

\* "x and current_file": None and the empty string are false.
Truthy(cf) == cf # None /\ cf[1] # ""

Max(a, b) == IF a >= b THEN a ELSE b

\* int(s): defined on decimal numerals, raises ValueError on anything else.
Numerals == {"0", "1", "2", "3", "4", "5", "6", "7", "8", "9", "10", "07"}

IsInt(s) == s \in Numerals

IntOf(s) ==
    CASE s = "0" -> 0 [] s = "1" -> 1 [] s = "2" -> 2 [] s = "3" -> 3
      [] s = "4" -> 4 [] s = "5" -> 5 [] s = "6" -> 6 [] s = "7" -> 7
      [] s = "8" -> 8 [] s = "9" -> 9 [] s = "10" -> 10 [] s = "07" -> 7

\* str(n), as an f-string renders an int.
StrOf(n) ==
    CASE n = 0 -> "0" [] n = 1 -> "1" [] n = 2 -> "2" [] n = 3 -> "3"
      [] n = 4 -> "4" [] n = 5 -> "5" [] n = 6 -> "6" [] n = 7 -> "7"
      [] n = 8 -> "8" [] n = 9 -> "9" [] n = 10 -> "10"

\* dict: the sequence of <<key, value>> items, in insertion order.
Keys(d) == {d[i][1] : i \in DOMAIN d}

Has(d, k) == \E i \in DOMAIN d : d[i][1] = k

\* d.get(k, default)
Get(d, k, default) ==
    IF Has(d, k) THEN d[CHOOSE i \in DOMAIN d : d[i][1] = k][2] ELSE default

\* d[k] = v: an existing key keeps its place, a new one goes last.
Put(d, k, v) ==
    IF Has(d, k)
    THEN [i \in DOMAIN d |-> IF d[i][1] = k THEN <<k, v>> ELSE d[i]]
    ELSE Append(d, <<k, v>>)

\* A dict as a mapping, the way == compares dicts: the order of items dropped.
AsMap(d) == [k \in Keys(d) |-> Get(d, k, 0)]

----------------------------------------------------------------------------
(* parse_lcov_file                                                         *)

NewRecord ==
    [functions |-> <<>>, lines |-> <<>>, branches |-> <<>>,
     function_data |-> <<>>, branch_data |-> <<>>]

\* line[3:] of an "SF:" line.
SourcePath(line) == IF Len(line) >= 2 THEN line[2] ELSE ""

\* f"{parts[0][5:]}:{parts[1]}:{parts[2]}", the three fields kept as text.
BranchKey(line) == <<line[2], line[3], line[4]>>

\* The name part of line.split(',', 1): everything after the first comma.
FuncName(line) == SubSeq(line, 3, Len(line))

\* The counter update every tag shares: d[k] = max(d.get(k, 0), count).
MaxInto(d, k, count) == Put(d, k, Max(Get(d, k, 0), count))

\* A faulty SF branch: a source-file marker starts the record afresh.
OpenRecordAfresh(cd, path) == Put(cd, path, NewRecord)

\* "if current_file not in coverage_data": a path seen again keeps its record.
OpenRecord(cd, path) == IF Has(cd, path) THEN cd ELSE Put(cd, path, NewRecord)

\* One iteration of the loop over the file's lines: the new coverage_data and
\* current_file, and whether the line raised (int() of a non-numeral).
ParseLine(cd, cf, line) ==
    LET tag == line[1]
        same == [cd |-> cd, cf |-> cf, raised |-> FALSE]
        raise == [cd |-> cd, cf |-> cf, raised |-> TRUE]
        rec == Get(cd, cf[1], NewRecord)
        with(r) == [cd |-> Put(cd, cf[1], r), cf |-> cf, raised |-> FALSE]
    IN  IF tag = "SF"
        THEN LET path == SourcePath(line)
             IN  [cd |-> OpenRecord(cd, path), cf |-> <<path>>,
                  raised |-> FALSE]
        ELSE IF tag = "FN" /\ Truthy(cf)
        THEN with([rec EXCEPT !.function_data = Append(@, line)])
        ELSE IF tag = "FNDA" /\ Truthy(cf)
        THEN IF Len(line) >= 3
             THEN IF ~IsInt(line[2]) THEN raise
                  ELSE with([rec EXCEPT !.functions =
                                 MaxInto(@, FuncName(line), IntOf(line[2]))])
             ELSE same
        ELSE IF tag = "DA" /\ Truthy(cf)
        THEN IF Len(line) = 3
             THEN IF ~IsInt(line[2]) \/ ~IsInt(line[3]) THEN raise
                  ELSE with([rec EXCEPT !.lines =
                                 MaxInto(@, IntOf(line[2]), IntOf(line[3]))])
             ELSE same
        ELSE IF tag = "BRDA" /\ Truthy(cf)
        THEN LET appended == [rec EXCEPT !.branch_data = Append(@, line)]
             IN  IF Len(line) = 5
                 THEN IF line[5] # "-" /\ ~IsInt(line[5]) THEN raise
                      ELSE with([appended EXCEPT !.branches =
                                     MaxInto(@, BranchKey(line),
                                             IF line[5] = "-" THEN 0
                                             ELSE IntOf(line[5]))])
                 ELSE with(appended)
        ELSE same

\* The loop over a whole file, from the state st.
RECURSIVE ParseFrom(_, _)
ParseFrom(st, lines) ==
    IF st.raised \/ lines = <<>> THEN st
    ELSE ParseFrom(ParseLine(st.cd, st.cf, Head(lines)), Tail(lines))

ParseStart == [cd |-> <<>>, cf |-> None, raised |-> FALSE]

\* A faulty except clause: the records parsed before the failing line are kept.
ExceptReturnPartial(cd) == cd

\* What the except clause returns once a line has raised.
ExceptReturn(cd) == <<>>

\* parse_lcov_file of a readable file with these lines.
parse_lcov_file(lines) ==
    LET st == ParseFrom(ParseStart, lines)
    IN  IF st.raised THEN ExceptReturn(st.cd) ELSE st.cd

----------------------------------------------------------------------------
(* merge_coverage_files                                                    *)

\* A faulty merge: the counts of the inputs are added up.
MergeCountSum(agg, key, count) == Put(agg, key, Get(agg, key, 0) + count)

\* A faulty merge: the count of the last input wins.
MergeCountLast(agg, key, count) == Put(agg, key, count)

\* merged[key] = max(merged.get(key, 0), count)
MergeCount(agg, key, count) == Put(agg, key, Max(Get(agg, key, 0), count))

\* One of the three "take maximum coverage" loops.
RECURSIVE MergeMax(_, _)
MergeMax(agg, incoming) ==
    IF incoming = <<>> THEN agg
    ELSE MergeMax(MergeCount(agg, Head(incoming)[1], Head(incoming)[2]),
                  Tail(incoming))

\* The entry a source file gets when it first enters merged_data.
SeedRecord(data) ==
    [functions |-> <<>>, lines |-> <<>>, branches |-> <<>>,
     function_data |-> data.function_data, branch_data |-> data.branch_data]

\* A faulty loop body: the definitions of a later input are added to the
\* aggregate's.
MergeRecordExtending(merged, source_file, data) ==
    LET seeded == IF Has(merged, source_file) THEN merged
                  ELSE Put(merged, source_file, NewRecord)
        old == Get(seeded, source_file, NewRecord)
    IN  Put(seeded, source_file,
            [old EXCEPT !.function_data = @ \o data.function_data,
                        !.branch_data = @ \o data.branch_data,
                        !.functions = MergeMax(@, data.functions),
                        !.lines = MergeMax(@, data.lines),
                        !.branches = MergeMax(@, data.branches)])

\* The body of "for source_file, data in file_data.items()".
MergeRecord(merged, source_file, data) ==
    LET seeded == IF Has(merged, source_file) THEN merged
                  ELSE Put(merged, source_file, SeedRecord(data))
        old == Get(seeded, source_file, NewRecord)
    IN  Put(seeded, source_file,
            [old EXCEPT !.functions = MergeMax(@, data.functions),
                        !.lines = MergeMax(@, data.lines),
                        !.branches = MergeMax(@, data.branches)])

\* The loop over one input's file_data.
RECURSIVE FoldFileData(_, _)
FoldFileData(merged, file_data) ==
    IF file_data = <<>> THEN merged
    ELSE FoldFileData(MergeRecord(merged, Head(file_data)[1], Head(file_data)[2]),
                      Tail(file_data))

----------------------------------------------------------------------------
(* write_merged_lcov                                                       *)

\* The "seen" loops: each line once, at its first place.
RECURSIVE DedupFrom(_, _)
DedupFrom(seq, seen) ==
    IF seq = <<>> THEN <<>>
    ELSE IF Head(seq) \in seen THEN DedupFrom(Tail(seq), seen)
    ELSE <<Head(seq)>> \o DedupFrom(Tail(seq), seen \cup {Head(seq)})

\* A faulty seen loop: every definition line is written, seen before or not.
DedupNone(seq) == seq

Dedup(seq) == DedupFrom(seq, {})

\* A faulty sort: the items are written in the dict's own order.
SortedItemsUnsorted(d) == d

\* sorted(d.items()) of a dict with integer keys.
RECURSIVE SortedItems(_)
SortedItems(d) ==
    IF d = <<>> THEN <<>>
    ELSE LET m == CHOOSE i \in DOMAIN d : \A j \in DOMAIN d : d[i][1] <= d[j][1]
         IN  <<d[m]>> \o SortedItems([i \in 1..(Len(d) - 1) |->
                                        IF i < m THEN d[i] ELSE d[i + 1]])

\* sum(1 for count in d.values() if count > 0)
Covered(d) == Cardinality({i \in DOMAIN d : d[i][2] > 0})

FndaLines(d) == [i \in DOMAIN d |-> <<"FNDA", StrOf(d[i][2])>> \o d[i][1]]

DaLines(d) ==
    LET s == SortedItems(d)
    IN  [i \in DOMAIN s |-> <<"DA", StrOf(s[i][1]), StrOf(s[i][2])>>]

\* The text written for one source file.
Block(source_file, data) ==
    <<<<"TN">>, <<"SF", source_file>>>>
    \o Dedup(data.function_data)
    \o FndaLines(data.functions)
    \o <<<<"FNF", StrOf(Len(data.functions))>>,
         <<"FNH", StrOf(Covered(data.functions))>>>>
    \o Dedup(data.branch_data)
    \o <<<<"BRF", StrOf(Len(data.branches))>>,
         <<"BRH", StrOf(Covered(data.branches))>>>>
    \o DaLines(data.lines)
    \o <<<<"LF", StrOf(Len(data.lines))>>,
         <<"LH", StrOf(Covered(data.lines))>>>>
    \o <<<<"end_of_record">>>>

\* The whole output text: one block per entry, in the dict's order.
RECURSIVE Serialize(_)
Serialize(merged) ==
    IF merged = <<>> THEN <<>>
    ELSE Block(Head(merged)[1], Head(merged)[2]) \o Serialize(Tail(merged))

\* The -o paths of the model, as their components: "merged.info" and
\* "coverage/merged.info".
OutputPaths == {<<"merged.info">>, <<"coverage", "merged.info">>}

\* os.path.dirname: the components before the last; <<>> is ''.
DirName(path) == SubSeq(path, 1, Len(path) - 1)

\* os.makedirs(name, exist_ok=True) raises FileNotFoundError on ''.
MakedirsRaises(name) == name = <<>>

NoOutput == [written |-> FALSE, path |-> <<>>, lines |-> <<>>]

----------------------------------------------------------------------------
(* The run: main calls merge_coverage_files, which loops over the inputs;  *)
(* each input is missing, unreadable, or read line by line.                *)

\* An entry of inputs: the file as found, whether reading it raised, and the
\* file_data parse_lcov_file returned for it (none is asked of a missing file).
MissingInput ==
    [exists |-> FALSE, readable |-> FALSE, lines |-> <<>>, raised |-> FALSE,
     file_data |-> <<>>]
UnreadableInput(file_data) ==
    [exists |-> TRUE, readable |-> FALSE, lines |-> <<>>, raised |-> TRUE,
     file_data |-> file_data]
FileInput(lines, raised, file_data) ==
    [exists |-> TRUE, readable |-> TRUE, lines |-> lines, raised |-> raised,
     file_data |-> file_data]

InitWith(alpha, maxFiles, maxLines, maxReads) ==
    /\ alphabet = alpha
    /\ limits = [files |-> maxFiles, lines |-> maxLines, reads |-> maxReads]
    /\ inputs = <<>>
    /\ nreads = 0
    /\ pc = "loop"
    /\ lines_read = <<>>
    /\ coverage_data = <<>>
    /\ current_file = None
    /\ merged_data = <<>>
    /\ write_called = FALSE
    /\ output = NoOutput
    /\ exit_status = -1

MoreInputs ==
    pc = "loop" /\ Len(inputs) < limits.files /\ nreads < limits.reads

\* os.path.exists is false: a warning, and on to the next input.
FileNotFound ==
    /\ MoreInputs
    /\ inputs' = Append(inputs, MissingInput)
    /\ nreads' = nreads + 1
    /\ UNCHANGED <<alphabet, limits, pc, lines_read, coverage_data,
                   current_file, merged_data, write_called, output, exit_status>>

\* open() raises: parse_lcov_file returns {} and nothing is folded.
OpenRaises ==
    /\ MoreInputs
    /\ inputs' = Append(inputs, UnreadableInput(ExceptReturn(<<>>)))
    /\ coverage_data' = <<>>
    /\ current_file' = None
    /\ lines_read' = <<>>
    /\ merged_data' = FoldFileData(merged_data, ExceptReturn(<<>>))
    /\ nreads' = nreads + 1
    /\ UNCHANGED <<alphabet, limits, pc, write_called, output, exit_status>>

\* parse_lcov_file starts on an input that opens.
OpenFile ==
    /\ MoreInputs
    /\ pc' = "parse"
    /\ coverage_data' = <<>>
    /\ current_file' = None
    /\ lines_read' = <<>>
    /\ nreads' = nreads + 1
    /\ UNCHANGED <<alphabet, limits, inputs, merged_data, write_called,
                   output, exit_status>>

\* One line of the open file.  A line that raises ends the parse: the except
\* clause returns {}, which merge_coverage_files folds.
ReadLine ==
    /\ pc = "parse"
    /\ Len(lines_read) < limits.lines
    /\ nreads < limits.reads
    /\ \E line \in (IF lines_read = <<>> THEN alphabet.head ELSE alphabet.body) :
         LET st == ParseLine(coverage_data, current_file, line)
         IN  /\ lines_read' = Append(lines_read, line)
             /\ nreads' = nreads + 1
             /\ IF st.raised
                THEN /\ pc' = "loop"
                     /\ inputs' = Append(inputs, FileInput(lines_read', TRUE,
                                                           ExceptReturn(st.cd)))
                     /\ merged_data' =
                          FoldFileData(merged_data, ExceptReturn(st.cd))
                     /\ UNCHANGED <<coverage_data, current_file>>
                ELSE /\ coverage_data' = st.cd
                     /\ current_file' = st.cf
                     /\ UNCHANGED <<pc, inputs, merged_data>>
    /\ UNCHANGED <<alphabet, limits, write_called, output, exit_status>>

\* End of file: parse_lcov_file returns coverage_data, which is folded.
EndOfFile ==
    /\ pc = "parse"
    /\ pc' = "loop"
    /\ inputs' = Append(inputs, FileInput(lines_read, FALSE, coverage_data))
    /\ merged_data' = FoldFileData(merged_data, coverage_data)
    /\ UNCHANGED <<alphabet, limits, nreads, lines_read, coverage_data,
                   current_file, write_called, output, exit_status>>

\* argv holds at least one file (nargs='+'); the loop is over.
Merged == pc = "loop" /\ Len(inputs) >= 1

\* main: "if not merged_data": sys.exit(1).
ExitNoData ==
    /\ Merged
    /\ merged_data = <<>>
    /\ pc' = "done"
    /\ exit_status' = 1
    /\ UNCHANGED <<alphabet, limits, inputs, nreads, lines_read, coverage_data,
                   current_file, merged_data, write_called, output>>

\* main: write_merged_lcov writes the file; the run ends with status 0.
WriteMergedLcov ==
    /\ Merged
    /\ merged_data # <<>>
    /\ \E path \in OutputPaths :
         /\ ~MakedirsRaises(DirName(path))
         /\ output' = [written |-> TRUE, path |-> path,
                       lines |-> Serialize(merged_data)]
    /\ write_called' = TRUE
    /\ pc' = "done"
    /\ exit_status' = 0
    /\ UNCHANGED <<alphabet, limits, inputs, nreads, lines_read, coverage_data,
                   current_file, merged_data>>

\* main: os.makedirs raises in write_merged_lcov, before the file is opened;
\* the uncaught exception ends the process with status 1.
WriteRaises ==
    /\ Merged
    /\ merged_data # <<>>
    /\ \E path \in OutputPaths : MakedirsRaises(DirName(path))
    /\ write_called' = TRUE
    /\ pc' = "done"
    /\ exit_status' = 1
    /\ UNCHANGED <<alphabet, limits, inputs, nreads, lines_read, coverage_data,
                   current_file, merged_data, output>>

Next ==
    \/ FileNotFound
    \/ OpenRaises
    \/ OpenFile
    \/ ReadLine
    \/ EndOfFile
    \/ ExitNoData
    \/ WriteMergedLcov
    \/ WriteRaises

----------------------------------------------------------------------------
(* Input alphabets and the specifications over them.                       *)

SFx == <<"SF", "x.c">>
SFy == <<"SF", "y.c">>

\* Counters of the three kinds, two counts a key, for two source files.
AlphaMerge ==
    [head |-> {SFx, SFy},
     body |-> {<<"DA", "10", "3">>, <<"DA", "10", "7">>, <<"DA", "2", "0">>,
               <<"FNDA", "3", "foo">>, <<"FNDA", "7", "foo">>,
               <<"BRDA", "1", "0", "0", "3">>, <<"BRDA", "1", "0", "0", "7">>}]

Init == InitWith(AlphaMerge, MaxFiles, MaxLines, MaxReads)

Spec == Init /\ [][Next]_vars

\* Two source files entered in either order, counters of the three kinds.
AlphaOrder ==
    [head |-> {SFx, SFy},
     body |-> {SFy, <<"DA", "10", "3">>, <<"DA", "10", "7">>,
               <<"FNDA", "7", "foo">>, <<"BRDA", "1", "0", "0", "3">>}]

InitOrder == InitWith(AlphaOrder, MaxFiles, MaxLines, MaxReads)

SpecOrder == InitOrder /\ [][Next]_vars

\* Lines that raise (int() of "x"), among lines that parse.
AlphaFail ==
    [head |-> {SFx, SFy},
     body |-> {SFy, <<"DA", "10", "3">>, <<"DA", "10", "7">>,
               <<"DA", "10", "x">>, <<"FNDA", "x", "foo">>,
               <<"BRDA", "1", "0", "0", "x">>}]

InitFail == InitWith(AlphaFail, MaxFiles, MaxLines, MaxReads)

SpecFail == InitFail /\ [][Next]_vars

\* Line counts for two source files, with summary lines of an input's own.
AlphaLines ==
    [head |-> {SFx, SFy},
     body |-> {SFy, <<"DA", "1", "5">>, <<"DA", "2", "0">>, <<"DA", "1", "2">>,
               <<"DA", "3", "4">>, <<"DA", "07", "1">>, <<"LF", "9">>,
               <<"LH", "9">>}]

InitLines == InitWith(AlphaLines, MaxFiles, MaxLines, MaxReads)

SpecLines == InitLines /\ [][Next]_vars

\* Function and branch definitions, well-formed, for two source files.
AlphaDefs ==
    [head |-> {SFx, SFy},
     body |-> {SFy, <<"FN", "5", "foo">>, <<"FN", "9", "bar">>,
               <<"BRDA", "1", "0", "0", "0">>, <<"BRDA", "1", "0", "0", "5">>,
               <<"BRDA", "2", "0", "0", "-">>, <<"DA", "1", "5">>}]

InitDefs == InitWith(AlphaDefs, MaxFiles, MaxLines, MaxReads)

SpecDefs == InitDefs /\ [][Next]_vars

\* Well-formed lines in any order: markers of two files, counts of each tag.
AlphaParse ==
    LET all == {SFx, SFy, <<"DA", "1", "3">>, <<"DA", "1", "7">>,
                <<"DA", "07", "1">>, <<"FNDA", "3", "foo">>,
                <<"BRDA", "1", "0", "0", "-">>, <<"BRDA", "1", "0", "0", "5">>}
    IN  [head |-> all, body |-> all]

InitParse == InitWith(AlphaParse, ParseMaxFiles, ParseMaxLines, ParseMaxReads)

SpecParse == InitParse /\ [][Next]_vars

\* Lines with too few or too many fields for their tag, among good ones.
AlphaMalformed ==
    LET all == {SFx, <<"FN", "foo">>, <<"FNDA", "3">>, <<"DA", "1">>,
                <<"DA", "1", "5", "sum">>, <<"BRDA", "1", "0", "0">>,
                <<"DA", "2", "4">>, <<"BRDA", "2", "0", "0", "1">>}
    IN  [head |-> all, body |-> all]

InitMalformed == InitWith(AlphaMalformed, ParseMaxFiles, ParseMaxLines, ParseMaxReads)

SpecMalformed == InitMalformed /\ [][Next]_vars

----------------------------------------------------------------------------
(* What the inputs consumed so far report.                                 *)

Range(s) == {s[i] : i \in DOMAIN s}

SetMax(S) == CHOOSE m \in S : \A x \in S : x <= m

Kinds == {"functions", "lines", "branches"}

\* An input that failed: missing, or opening or reading it raised.
Failed(input) == ~input.exists \/ input.raised

\* What parse_lcov_file returned for input i.
Parsed(i) == inputs[i].file_data

ReportedPaths == UNION {Keys(Parsed(i)) : i \in DOMAIN inputs}

\* The inputs whose record of path p holds key k of this kind.
Reporters(p, kind, k) ==
    {i \in DOMAIN inputs :
        Has(Parsed(i), p) /\ Has(Get(Parsed(i), p, NewRecord)[kind], k)}

ReportedKeys(p, kind) ==
    UNION {Keys(Get(Parsed(i), p, NewRecord)[kind]) : i \in DOMAIN inputs}

ReportedCounts(p, kind, k) ==
    {Get(Get(Parsed(i), p, NewRecord)[kind], k, 0) : i \in Reporters(p, kind, k)}

\* The counters of an aggregate, definition lines and orders dropped.
Counters(merged) ==
    [p \in Keys(merged) |->
        [kind \in Kinds |-> AsMap(Get(merged, p, NewRecord)[kind])]]

\* merge_coverage_files over parsed inputs, as a fold from the empty aggregate.
RECURSIVE MergeAll(_)
MergeAll(parsed) ==
    IF parsed = <<>> THEN <<>>
    ELSE FoldFileData(MergeAll(SubSeq(parsed, 1, Len(parsed) - 1)),
                      parsed[Len(parsed)])

Orders(n) ==
    {f \in [1..n -> 1..n] : \A i, j \in 1..n : f[i] = f[j] => i = j}

----------------------------------------------------------------------------
(* C1: after any sequence of inputs has been folded, the aggregate holds,  *)
(* for every source file and counter kind, exactly the keys the inputs     *)
(* report, each with the maximum of the counts reported for it.            *)
C1_UnionWithMax ==
    /\ Keys(merged_data) = ReportedPaths
    /\ \A p \in ReportedPaths : \A kind \in Kinds :
         LET agg == Get(merged_data, p, NewRecord)[kind]
         IN  /\ Keys(agg) = ReportedKeys(p, kind)
             /\ \A k \in Keys(agg) :
                    Get(agg, k, -1) = SetMax(ReportedCounts(p, kind, k))

\* Two inputs report line 10 of x.c with 3 and with 7; the aggregate holds 7.
C1_Witness ==
    /\ Len(inputs) = 2
    /\ pc = "loop"
    /\ ReportedCounts("x.c", "lines", 10) = {3, 7}
    /\ Cardinality(Reporters("x.c", "lines", 10)) = 2
    /\ Get(Get(merged_data, "x.c", NewRecord).lines, 10, -1) = 7

(* C2: the merged counters are the same for every permutation of the       *)
(* inputs: the same source files, and per file the same three mappings.    *)
C2_OrderIndependent ==
    \A f \in Orders(Len(inputs)) :
        Counters(MergeAll([i \in DOMAIN inputs |-> Parsed(f[i])]))
            = Counters(merged_data)

\* Two different inputs that report different counts for one key.
C2_Witness ==
    /\ Len(inputs) = 2
    /\ pc = "loop"
    /\ Parsed(1) # Parsed(2)
    /\ \E p \in Keys(merged_data) :
          /\ Reporters(p, "lines", 10) = {1, 2}
          /\ Cardinality(ReportedCounts(p, "lines", 10)) = 2

(* C4: a missing or failing input contributes nothing: the aggregate is    *)
(* the one the inputs that did not fail give, merged in the same order.    *)
C4_FailuresIsolated ==
    LET ok == SelectSeq(inputs, LAMBDA input : ~Failed(input))
    IN  merged_data =
          MergeAll([i \in DOMAIN ok |-> parse_lcov_file(ok[i].lines)])

\* An input raised after a record of it had been parsed, and a later input
\* was still merged.
C4_Witness ==
    /\ pc = "loop"
    /\ \E i, j \in DOMAIN inputs :
          /\ i < j
          /\ inputs[i].raised
          /\ ParseFrom(ParseStart, inputs[i].lines).cd # <<>>
          /\ ~Failed(inputs[j])
          /\ Keys(merged_data) = Keys(Parsed(j))
          /\ merged_data # <<>>

(* C5: a run exits with status 1 exactly when the aggregate is empty, and  *)
(* then write_merged_lcov is not called and no file is written; every      *)
(* other run writes the output file and exits with status 0.               *)
C5_ExitStatus ==
    pc = "done" =>
        /\ exit_status = 1 <=> merged_data = <<>>
        /\ merged_data = <<>> => ~write_called /\ ~output.written
        /\ merged_data # <<>> => output.written /\ exit_status = 0

----------------------------------------------------------------------------
(* The output text, read back.                                             *)

EndOfRecord == <<"end_of_record">>

\* The blocks of an output text, each ending with its end_of_record line.
RECURSIVE BlocksOf(_)
BlocksOf(text) ==
    IF text = <<>> THEN <<>>
    ELSE LET e == CHOOSE i \in DOMAIN text :
                    /\ text[i] = EndOfRecord
                    /\ \A j \in 1..(i - 1) : text[j] # EndOfRecord
         IN  <<SubSeq(text, 1, e)>> \o BlocksOf(SubSeq(text, e + 1, Len(text)))

\* The source file a block is about: its second line is the SF line.
BlockPath(block) == block[2][2]

\* The lines of a block with this tag, in the block's order.
OfTag(block, tag) == SelectSeq(block, LAMBDA line : line[1] = tag)

\* How often a line occurs in a sequence of lines.
Occurrences(seq, line) == Cardinality({i \in DOMAIN seq : seq[i] = line})

\* The count a BRDA line carries, "-" read as 0.
BranchCount(line) == IF line[5] = "-" THEN 0 ELSE IntOf(line[5])

\* The first input whose file_data holds path p.
FirstWith(p) ==
    CHOOSE i \in DOMAIN inputs :
        /\ Has(Parsed(i), p)
        /\ \A j \in 1..(i - 1) : ~Has(Parsed(j), p)

\* The definition lines of path p in all the inputs, in the inputs' order;
\* field is "function_data" or "branch_data".
RECURSIVE DefsUpTo(_, _, _)
DefsUpTo(n, p, field) ==
    IF n = 0 THEN <<>>
    ELSE DefsUpTo(n - 1, p, field) \o Get(Parsed(n), p, NewRecord)[field]

AllDefs(p, field) == DefsUpTo(Len(inputs), p, field)

FirstPlace(seq, line) == CHOOSE i \in DOMAIN seq :
    seq[i] = line /\ \A j \in 1..(i - 1) : seq[j] # line

\* No line twice, and the lines in the order of their first places in defs.
OnceInFirstOrder(emitted, defs) ==
    /\ \A i \in DOMAIN emitted : Occurrences(defs, emitted[i]) >= 1
    /\ \A i, j \in DOMAIN emitted :
          i < j => /\ emitted[i] # emitted[j]
                   /\ FirstPlace(defs, emitted[i]) < FirstPlace(defs, emitted[j])

----------------------------------------------------------------------------
(* C6: the line section of every block renders the merged line counters:   *)
(* one DA line per line reported by the inputs, with the maximum count     *)
(* reported, in ascending order of line number, then LF, the number of DA  *)
(* lines, and LH, the number of them with a count above 0; the summary     *)
(* lines of the inputs have no part in it.                                 *)
C6_LineSection ==
    output.written =>
        LET blocks == BlocksOf(output.lines)
        IN  /\ {BlockPath(blocks[n]) : n \in DOMAIN blocks} = ReportedPaths
            /\ \A n \in DOMAIN blocks :
                  LET b == blocks[n]
                      p == BlockPath(b)
                      da == OfTag(b, "DA")
                      hit == {i \in DOMAIN da : IntOf(da[i][3]) > 0}
                  IN  /\ {IntOf(da[i][2]) : i \in DOMAIN da}
                            = ReportedKeys(p, "lines")
                      /\ \A i \in DOMAIN da :
                            /\ Len(da[i]) = 3
                            /\ IntOf(da[i][3]) =
                                 SetMax(ReportedCounts(p, "lines", IntOf(da[i][2])))
                      /\ \A i, j \in DOMAIN da :
                            i < j => IntOf(da[i][2]) < IntOf(da[j][2])
                      /\ SubSeq(b, Len(b) - Len(da) - 2, Len(b)) =
                            da \o <<<<"LF", StrOf(Len(da))>>,
                                    <<"LH", StrOf(Cardinality(hit))>>,
                                    EndOfRecord>>
                      /\ OfTag(b, "LF") = <<<<"LF", StrOf(Len(da))>>>>
                      /\ OfTag(b, "LH") = <<<<"LH", StrOf(Cardinality(hit))>>>>

\* The end-to-end scenario: A = {DA:1,5; DA:2,0} and B = {DA:1,2; DA:3,4} for
\* x.c give DA:1,5, DA:2,0, DA:3,4, LF:3, LH:2.
C6_Witness ==
    /\ output.written
    /\ Len(inputs) = 2
    /\ inputs[1].lines = <<SFx, <<"DA", "1", "5">>, <<"DA", "2", "0">>>>
    /\ inputs[2].lines = <<SFx, <<"DA", "1", "2">>, <<"DA", "3", "4">>>>
    /\ output.lines =
         <<<<"TN">>, SFx, <<"FNF", "0">>, <<"FNH", "0">>, <<"BRF", "0">>,
           <<"BRH", "0">>, <<"DA", "1", "5">>, <<"DA", "2", "0">>,
           <<"DA", "3", "4">>, <<"LF", "3">>, <<"LH", "2">>, EndOfRecord>>

(* C7, as stated: in every block no FN line and no BRDA line appears twice, *)
(* the definition lines keep the order of their first appearance, and a    *)
(* definition line present in several inputs, or several times in one      *)
(* input, for the block's source file is written exactly once.             *)
C7_Original ==
    output.written =>
        \A n \in DOMAIN BlocksOf(output.lines) :
            LET b == BlocksOf(output.lines)[n]
                p == BlockPath(b)
                fns == AllDefs(p, "function_data")
                brs == AllDefs(p, "branch_data")
            IN  /\ OnceInFirstOrder(OfTag(b, "FN"), fns)
                /\ OnceInFirstOrder(OfTag(b, "BRDA"), brs)
                /\ \A line \in Range(fns) :
                      Occurrences(fns, line) >= 2 => Occurrences(b, line) = 1
                /\ \A line \in Range(brs) :
                      Occurrences(brs, line) >= 2 => Occurrences(b, line) = 1

(* C7, amended: in every block no FN line and no BRDA line appears twice,  *)
(* the definition lines keep the order of their first appearance, and the  *)
(* lines written are those of the first input that holds the block's       *)
(* source file: each of them exactly once, however often it occurs there   *)
(* or in later inputs, and no line that only later inputs hold.            *)
C7_DefinitionsOnce ==
    output.written =>
        \A n \in DOMAIN BlocksOf(output.lines) :
            LET b == BlocksOf(output.lines)[n]
                p == BlockPath(b)
                first == Get(Parsed(FirstWith(p)), p, NewRecord)
            IN  /\ OnceInFirstOrder(OfTag(b, "FN"), AllDefs(p, "function_data"))
                /\ OnceInFirstOrder(OfTag(b, "BRDA"), AllDefs(p, "branch_data"))
                /\ Range(OfTag(b, "FN")) = Range(first.function_data)
                /\ Range(OfTag(b, "BRDA")) = Range(first.branch_data)

\* FN:5,foo is in both inputs for x.c, twice in the second, and once in the
\* output, after FN:9,bar, which the first input holds before it.
C7_Witness ==
    /\ output.written
    /\ Len(inputs) = 2
    /\ inputs[1].lines = <<SFx, <<"FN", "9", "bar">>, <<"FN", "5", "foo">>>>
    /\ inputs[2].lines = <<SFx, <<"FN", "5", "foo">>, <<"FN", "5", "foo">>>>
    /\ OfTag(output.lines, "FN") = <<<<"FN", "9", "bar">>, <<"FN", "5", "foo">>>>

(* C9: the definition sequences of a source file in the aggregate are      *)
(* those of the first input that holds the file, whatever definitions the  *)
(* inputs folded after it carry for it.                                    *)
C9_DefinitionsFrozen ==
    \A p \in Keys(merged_data) :
        LET first == Get(Parsed(FirstWith(p)), p, NewRecord)
            agg == Get(merged_data, p, NewRecord)
        IN  /\ agg.function_data = first.function_data
            /\ agg.branch_data = first.branch_data

\* A later input carries other definitions and counts for x.c: the counts
\* are merged, the definitions are not.
C9_Witness ==
    /\ Len(inputs) = 2
    /\ pc = "loop"
    /\ Has(Parsed(1), "x.c") /\ Has(Parsed(2), "x.c")
    /\ LET one == Get(Parsed(1), "x.c", NewRecord)
           two == Get(Parsed(2), "x.c", NewRecord)
           agg == Get(merged_data, "x.c", NewRecord)
       IN  /\ two.function_data # <<>>
           /\ two.function_data # one.function_data
           /\ two.branch_data # <<>>
           /\ two.branch_data # one.branch_data
           /\ agg.function_data = one.function_data
           /\ agg.branch_data = one.branch_data
           /\ AsMap(agg.branches) # AsMap(one.branches)

(* C10: in every block the branch summary agrees with the BRDA lines       *)
(* written: BRF is the number of distinct (line, block, branch) keys among *)
(* them, each BRDA line carries the merged count of its key, and BRH is    *)
(* the number of those keys whose written count is above 0.                *)
C10_BranchSummary ==
    output.written =>
        \A n \in DOMAIN BlocksOf(output.lines) :
            LET b == BlocksOf(output.lines)[n]
                br == OfTag(b, "BRDA")
                agg == Get(merged_data, BlockPath(b), NewRecord).branches
                keys == {BranchKey(br[i]) : i \in DOMAIN br}
                hit == {k \in keys : \E i \in DOMAIN br :
                           BranchKey(br[i]) = k /\ BranchCount(br[i]) > 0}
            IN  /\ OfTag(b, "BRF") = <<<<"BRF", StrOf(Cardinality(keys))>>>>
                /\ \A i \in DOMAIN br :
                      BranchCount(br[i]) = Get(agg, BranchKey(br[i]), -1)
                /\ OfTag(b, "BRH") = <<<<"BRH", StrOf(Cardinality(hit))>>>>

----------------------------------------------------------------------------
(* The open file, read back from lines_read.                               *)

\* The tag of each counter kind, and the key and count a line of it gives.
TagOf(kind) ==
    CASE kind = "functions" -> "FNDA" [] kind = "lines" -> "DA"
      [] kind = "branches" -> "BRDA"

KeyOf(line) ==
    CASE line[1] = "FNDA" -> SubSeq(line, 3, Len(line))
      [] line[1] = "DA" -> IntOf(line[2])
      [] line[1] = "BRDA" -> <<line[2], line[3], line[4]>>

CountOf(line) ==
    CASE line[1] = "FNDA" -> IntOf(line[2])
      [] line[1] = "DA" -> IntOf(line[3])
      [] line[1] = "BRDA" -> BranchCount(line)

\* The context line i is read in: the path of the last SF line before it.
Context(i) ==
    LET markers == {j \in 1..(i - 1) : lines_read[j][1] = "SF"}
    IN  IF markers = {} THEN None ELSE <<lines_read[SetMax(markers)][2]>>

\* The lines of this kind read while the context was p.
ReadFor(p, kind) ==
    {i \in DOMAIN lines_read :
        lines_read[i][1] = TagOf(kind) /\ Context(i) = <<p>>}

\* The fields a record line of each tag has, the tag counted.
WrongFieldCount(line) ==
    \/ line[1] \in {"FN", "FNDA", "DA"} /\ Len(line) # 3
    \/ line[1] = "BRDA" /\ Len(line) # 5

DefinitionLines(data) ==
    UNION {Range(data[i][2].function_data) \cup Range(data[i][2].branch_data) :
              i \in DOMAIN data}

----------------------------------------------------------------------------
(* C8: while a file of well-formed lines is parsed, the record of path p   *)
(* holds, for each counter kind, the keys of the lines of that kind read   *)
(* while the context was p, in any SF:p segment, each with the maximum of  *)
(* their counts ("-" as 0); lines read before the first SF marker are in   *)
(* no record.                                                              *)
C8_ParserAccumulates ==
    pc = "parse" =>
        /\ Keys(coverage_data) =
              {lines_read[i][2] : i \in {j \in DOMAIN lines_read :
                                            lines_read[j][1] = "SF"}}
        /\ \A p \in Keys(coverage_data) : \A kind \in Kinds :
              LET counters == Get(coverage_data, p, NewRecord)[kind]
                  read == ReadFor(p, kind)
              IN  /\ Keys(counters) = {KeyOf(lines_read[i]) : i \in read}
                  /\ \A k \in Keys(counters) :
                        Get(counters, k, -1) =
                          SetMax({CountOf(lines_read[i]) :
                                    i \in {j \in read : KeyOf(lines_read[j]) = k}})

\* A count before the first marker, then two SF:x.c segments with counts 7
\* and 3 for line 1: the record of x.c holds 7 for it, and nothing else.
C8_Witness ==
    /\ pc = "parse"
    /\ lines_read = <<<<"DA", "07", "1">>, SFx, <<"DA", "1", "7">>, SFx,
                      <<"DA", "1", "3">>>>
    /\ coverage_data =
         <<<<"x.c", [NewRecord EXCEPT !.lines = <<<<1, 7>>>>]>>>>

(* C3: a record line with a wrong field count for its tag is skipped: it   *)
(* is in no counter mapping and in no definition sequence of the parsed    *)
(* record or of the aggregate, and it is not in the output.                *)
C3_MalformedSkipped ==
    /\ \A line \in DefinitionLines(coverage_data) : ~WrongFieldCount(line)
    /\ \A line \in DefinitionLines(merged_data) : ~WrongFieldCount(line)
    /\ output.written =>
          \A i \in DOMAIN output.lines : ~WrongFieldCount(output.lines[i])

====
